---- MODULE Spec2Model ----
(***************************************************************************)
(* Model of the year-end reconciliation validator:                         *)
(*   scoring_rules.py  - classify_risk and the four per-row scorers        *)
(*   validator.py      - the four detectors and run_pipeline               *)
(*   dashboard.py      - load_data, the global filters, the journal entries*)
(* Amounts, dates and scores are integers; a null cell is the value Null.  *)
(***************************************************************************)
EXTENDS Integers, Sequences, FiniteSets, TLC

VARIABLES
    \* the scorer harness: one row handed to one scorer, one score to classify_risk
    domain, row, result, prevResult, probeScore, probeLevel,
    \* the warehouse tables load_table reads, and how this build's unstable
    \* quicksort leaves equal counts (sort_values in validate_ap)
    source, quicksortTies,
    \* run_pipeline: position, the dataframes of the run, the files in output/
    pc, cur, runsLeft, df, stage, output, lastDone,
    \* dashboard.py: the cached load_data, the sidebar widgets, the JE table
    loaded, vendor_filter, risk_threshold, je_rows

scoreVars == <<domain, row, result, prevResult, probeScore, probeLevel>>

pipeVars == <<source, quicksortTies, pc, cur, runsLeft, df, stage, output, lastDone>>

dashVars == <<loaded, vendor_filter, risk_threshold, je_rows>>

vars == <<scoreVars, pipeVars, dashVars>>

\* ------------------------------------------------------------------ bounds
\* Invocations of run_pipeline in one behaviour.
MaxRuns == 2
\* Rows of the AP table when the AP detector is exercised.
MaxAP == 3
\* Rows of the AP and bank tables when the bank join is exercised.
MaxJoinAP == 2
MaxBank == 1
\* Rows of the tax and lease tables when their detectors are exercised.
MaxTax == 2
MaxLease == 2
\* Rows of the AP table when the journal entries are exercised.
MaxJEAP == 2
\* Largest tax_diff_abs a harness row carries (the code compares it with 5).
MaxTaxDiff == 6
\* Largest score handed to classify_risk by the band harness.
MaxProbe == 105

\* ----------------------------------------------------------------- helpers
Max(a, b) == IF a >= b THEN a ELSE b
Min(a, b) == IF a <= b THEN a ELSE b
B2I(b) == IF b THEN 1 ELSE 0

EmptyRow == [x \in {} |-> FALSE]

\* The slip: a flag the row does not carry is read as set.
GetAbsentTrue(r, key, default) ==
    IF key \in DOMAIN r THEN r[key]
    ELSE IF key = "tax_diff_abs" THEN default ELSE TRUE

\* row.get(key, default)
Get(r, key, default) == IF key \in DOMAIN r THEN r[key] ELSE default

NoResult == [score |-> -1, level |-> "none"]

\* ------------------------------------------------------- scoring_rules.py
LOW == "Low (5-15%)"
MEDIUM == "Medium (20-40%)"
HIGH == "High (50-80%)"
CRITICAL == "Critical (85-99%)"

classify_risk_strict(score) ==
    IF score < 20 THEN LOW
    ELSE IF score < 40 THEN MEDIUM
    ELSE IF score < 70 THEN HIGH
    ELSE CRITICAL

classify_risk(score) ==
    IF score <= 20 THEN LOW
    ELSE IF score <= 40 THEN MEDIUM
    ELSE IF score <= 70 THEN HIGH
    ELSE CRITICAL

\* "if flags >= 3: score = max(score, floor)" with three plausible slips.
FloorRuleAssign(score, flags, floor) == IF flags >= 3 THEN floor ELSE score

FloorRuleLate(score, flags, floor) == IF flags > 3 THEN Max(score, floor) ELSE score

FloorRule(score, flags, floor) == IF flags >= 3 THEN Max(score, floor) ELSE score

\* "score = min(score, 100)"; the slip forgets the ceiling.
ClampNone(score) == score

Clamp(score) == Min(score, 100)

score_ap_row(r) ==
    LET missing_in_GL == Get(r, "missing_in_GL", FALSE)
        amount_mismatch == Get(r, "amount_mismatch", FALSE)
        late_posting == Get(r, "late_posting", FALSE)
        duplicate == Get(r, "duplicate_invoice_number", FALSE)
        unusual_gl == Get(r, "unusual_GL_account", FALSE)
        s0 == 5
        s1 == IF late_posting THEN s0 + 10 ELSE s0
        s2 == IF amount_mismatch THEN s1 + 30 ELSE s1
        s3 == IF unusual_gl THEN s2 + 25 ELSE s2
        s4 == IF duplicate THEN s3 + 40 ELSE s3
        s5 == IF missing_in_GL
              THEN IF amount_mismatch \/ duplicate \/ late_posting \/ unusual_gl
                   THEN s4 + 60 + 20
                   ELSE s4 + 60
              ELSE s4
        flags == B2I(missing_in_GL) + B2I(amount_mismatch) + B2I(late_posting)
                 + B2I(duplicate) + B2I(unusual_gl)
        s6 == FloorRule(s5, flags, 90)
        s7 == Clamp(s6)
    IN [score |-> s7, level |-> classify_risk(s7)]

score_bank_row(r) ==
    LET no_match == Get(r, "no_matching_invoice", FALSE)
        inv_paid_no_bank == Get(r, "invoice_marked_paid_but_no_bank_txn", FALSE)
        duplicate_payment == Get(r, "duplicate_payment", FALSE)
        amount_mismatch == Get(r, "amount_mismatch", FALSE)
        unusual_vendor == Get(r, "unusual_vendor_payment", FALSE)
        s0 == 5
        s1 == IF unusual_vendor THEN s0 + 10 ELSE s0
        s2 == IF amount_mismatch THEN s1 + 25 ELSE s1
        s3 == IF inv_paid_no_bank THEN s2 + 40 ELSE s2
        s4 == IF no_match THEN s3 + 50 ELSE s3
        s5 == IF duplicate_payment THEN s4 + 60 ELSE s4
        s6 == IF duplicate_payment /\ amount_mismatch THEN s5 + 15 ELSE s5
        s7 == IF no_match /\ (duplicate_payment \/ amount_mismatch
                              \/ unusual_vendor \/ inv_paid_no_bank)
              THEN s6 + 20 ELSE s6
        flags == B2I(no_match) + B2I(inv_paid_no_bank) + B2I(duplicate_payment)
                 + B2I(amount_mismatch) + B2I(unusual_vendor)
        s8 == FloorRule(s7, flags, 90)
        s9 == Clamp(s8)
    IN [score |-> s9, level |-> classify_risk(s9)]

\* The slip: a per-invoice difference above 5 is counted as a sixth flag.
score_tax_row_diff_counted(r) ==
    LET rate_mismatch == Get(r, "rate_mismatch", FALSE)
        tax_missing == Get(r, "tax_missing", FALSE)
        tax_on_non_taxable == Get(r, "tax_on_nontaxable_item", FALSE)
        jurisdiction_missing == Get(r, "jurisdiction_missing", FALSE)
        gl_tax_diff_flag == Get(r, "gl_tax_diff_flag", FALSE)
        tax_diff_abs == Get(r, "tax_diff_abs", 0)
        s0 == 5
        s1 == IF jurisdiction_missing THEN s0 + 15 ELSE s0
        s2 == IF rate_mismatch THEN s1 + 30 ELSE s1
        s3 == IF tax_missing THEN s2 + 40 ELSE s2
        s4 == IF tax_on_non_taxable THEN s3 + 35 ELSE s3
        s5 == IF gl_tax_diff_flag THEN s4 + 25 ELSE s4
        s6 == IF tax_diff_abs > 5 THEN s5 + 10 ELSE s5
        s7 == IF tax_missing /\ rate_mismatch THEN s6 + 65 ELSE s6
        s8 == IF tax_missing /\ gl_tax_diff_flag THEN s7 + 70 ELSE s7
        s9 == IF tax_on_non_taxable /\ rate_mismatch THEN s8 + 60 ELSE s8
        flags == B2I(rate_mismatch) + B2I(tax_missing) + B2I(tax_on_non_taxable)
                 + B2I(jurisdiction_missing) + B2I(gl_tax_diff_flag)
                 + B2I(tax_diff_abs > 5)
        s10 == FloorRule(s9, flags, 85)
        s11 == Clamp(s10)
    IN [score |-> s11, level |-> classify_risk(s11)]

\* The slip: the combination bonuses replace the single weights they cover.
score_tax_row_exclusive(r) ==
    LET rate_mismatch == Get(r, "rate_mismatch", FALSE)
        tax_missing == Get(r, "tax_missing", FALSE)
        tax_on_non_taxable == Get(r, "tax_on_nontaxable_item", FALSE)
        jurisdiction_missing == Get(r, "jurisdiction_missing", FALSE)
        gl_tax_diff_flag == Get(r, "gl_tax_diff_flag", FALSE)
        tax_diff_abs == Get(r, "tax_diff_abs", 0)
        s0 == 5
        s1 == IF jurisdiction_missing THEN s0 + 15 ELSE s0
        s6 == IF tax_diff_abs > 5 THEN s1 + 10 ELSE s1
        s7 == IF tax_missing /\ rate_mismatch THEN s6 + 65
              ELSE IF tax_missing /\ gl_tax_diff_flag THEN s6 + 70
              ELSE IF tax_on_non_taxable /\ rate_mismatch THEN s6 + 60
              ELSE s6 + (IF rate_mismatch THEN 30 ELSE 0)
                      + (IF tax_missing THEN 40 ELSE 0)
                      + (IF tax_on_non_taxable THEN 35 ELSE 0)
                      + (IF gl_tax_diff_flag THEN 25 ELSE 0)
        flags == B2I(rate_mismatch) + B2I(tax_missing) + B2I(tax_on_non_taxable)
                 + B2I(jurisdiction_missing) + B2I(gl_tax_diff_flag)
        s10 == FloorRule(s7, flags, 85)
        s11 == Clamp(s10)
    IN [score |-> s11, level |-> classify_risk(s11)]

score_tax_row(r) ==
    LET rate_mismatch == Get(r, "rate_mismatch", FALSE)
        tax_missing == Get(r, "tax_missing", FALSE)
        tax_on_non_taxable == Get(r, "tax_on_nontaxable_item", FALSE)
        jurisdiction_missing == Get(r, "jurisdiction_missing", FALSE)
        gl_tax_diff_flag == Get(r, "gl_tax_diff_flag", FALSE)
        tax_diff_abs == Get(r, "tax_diff_abs", 0)
        s0 == 5
        s1 == IF jurisdiction_missing THEN s0 + 15 ELSE s0
        s2 == IF rate_mismatch THEN s1 + 30 ELSE s1
        s3 == IF tax_missing THEN s2 + 40 ELSE s2
        s4 == IF tax_on_non_taxable THEN s3 + 35 ELSE s3
        s5 == IF gl_tax_diff_flag THEN s4 + 25 ELSE s4
        s6 == IF tax_diff_abs > 5 THEN s5 + 10 ELSE s5
        s7 == IF tax_missing /\ rate_mismatch THEN s6 + 65 ELSE s6
        s8 == IF tax_missing /\ gl_tax_diff_flag THEN s7 + 70 ELSE s7
        s9 == IF tax_on_non_taxable /\ rate_mismatch THEN s8 + 60 ELSE s8
        flags == B2I(rate_mismatch) + B2I(tax_missing) + B2I(tax_on_non_taxable)
                 + B2I(jurisdiction_missing) + B2I(gl_tax_diff_flag)
        s10 == FloorRule(s9, flags, 85)
        s11 == Clamp(s10)
    IN [score |-> s11, level |-> classify_risk(s11)]

score_lease_row(r) ==
    LET liab_diff_flag == Get(r, "schedule_to_GL_liability_diff_flag", FALSE)
        rou_diff_flag == Get(r, "schedule_to_GL_ROU_diff_flag", FALSE)
        missing_periods == Get(r, "missing_periods", FALSE)
        incorrect_opening == Get(r, "incorrect_opening_entry", FALSE)
        classification_flag == Get(r, "classification_flag", FALSE)
        ip_mismatch == Get(r, "ip_sum_mismatch", FALSE)
        s0 == 5
        s1 == IF liab_diff_flag THEN s0 + 20 ELSE s0
        s2 == IF rou_diff_flag THEN s1 + 20 ELSE s1
        s3 == IF missing_periods THEN s2 + 40 ELSE s2
        s4 == IF incorrect_opening THEN s3 + 50 ELSE s3
        s5 == IF classification_flag THEN s4 + 45 ELSE s4
        s6 == IF ip_mismatch THEN s5 + 50 ELSE s5
        s7 == IF liab_diff_flag /\ missing_periods THEN s6 + 30 ELSE s6
        s8 == IF rou_diff_flag /\ incorrect_opening THEN s7 + 35 ELSE s7
        flags == B2I(liab_diff_flag) + B2I(rou_diff_flag) + B2I(missing_periods)
                 + B2I(incorrect_opening) + B2I(classification_flag)
                 + B2I(ip_mismatch)
        s9 == FloorRule(s8, flags, 90)
        s10 == Clamp(s9)
    IN [score |-> s10, level |-> classify_risk(s10)]

\* The flag columns each scorer reads.
APFlags == {"missing_in_GL", "amount_mismatch", "late_posting",
            "duplicate_invoice_number", "unusual_GL_account"}

BankFlags == {"no_matching_invoice", "invoice_marked_paid_but_no_bank_txn",
              "duplicate_payment", "amount_mismatch", "unusual_vendor_payment"}

TaxFlags == {"rate_mismatch", "tax_missing", "tax_on_nontaxable_item",
             "jurisdiction_missing", "gl_tax_diff_flag"}

LeaseFlags == {"schedule_to_GL_liability_diff_flag", "schedule_to_GL_ROU_diff_flag",
               "missing_periods", "incorrect_opening_entry", "classification_flag",
               "ip_sum_mismatch"}

Domains == {"AP", "Bank", "Tax", "Lease"}

FlagsOf(d) ==
    CASE d = "AP" -> APFlags
      [] d = "Bank" -> BankFlags
      [] d = "Tax" -> TaxFlags
      [] d = "Lease" -> LeaseFlags
      [] OTHER -> {}

ScoreRowOf(d, r) ==
    CASE d = "AP" -> score_ap_row(r)
      [] d = "Bank" -> score_bank_row(r)
      [] d = "Tax" -> score_tax_row(r)
      [] d = "Lease" -> score_lease_row(r)

\* ------------------------------------------------------------ validator.py
\* A null string cell (None/NaN).  A nullable numeric cell is <<>> or <<n>>.
Null == "<NA>"

Abs(x) == IF x < 0 THEN -x ELSE x

\* pd.to_numeric(col, errors="coerce").fillna(0)
to_numeric_fillna0(c) == IF c = <<>> THEN 0 ELSE c[1]

\* Series.fillna(0) on a float column
fillna0(c) == IF c = <<>> THEN 0 ELSE c[1]

\* .astype(str).str.strip() on the strings of the model (a null turns into "nan")
Strip(s) == IF s \in {"", " ", "  "} THEN "" ELSE s

RECURSIVE Flatten(_)
Flatten(ss) == IF ss = <<>> THEN <<>> ELSE Head(ss) \o Flatten(Tail(ss))

RECURSIVE SumSet(_, _)
SumSet(S, f) ==
    IF S = {} THEN 0
    ELSE LET x == CHOOSE y \in S : TRUE IN f[x] + SumSet(S \ {x}, f)

MaxOf(S) == CHOOSE x \in S : \A y \in S : y <= x

\* pd.Timestamp("2025-12-31") as a day number (2025-01-01 is day 1)
YEAR_END == 365

\* Lexicographic order of the GL account strings (groupby sorts its keys).
GLSortOrder == <<"6100", "6200">>

GLRank(g) == CHOOSE i \in 1..Len(GLSortOrder) : GLSortOrder[i] = g

\* ap.groupby(["Vendor", "GL_Account"]).size(): null keys are dropped.
VendorGLCount(ap, v, g) ==
    Cardinality({i \in 1..Len(ap) : ap[i].Vendor = v /\ ap[i].GL_Account = g})

VendorGLs(ap, v) ==
    {ap[i].GL_Account : i \in {j \in 1..Len(ap) : ap[j].Vendor = v /\ ap[j].GL_Account # Null}}

\* The slip: the least frequent account is taken (ascending sort).
vendor_gl_mode_ascending(ap, v) ==
    LET gls == VendorGLs(ap, v)
        low == {g \in gls : \A h \in gls : VendorGLCount(ap, v, g) <= VendorGLCount(ap, v, h)}
    IN IF v = Null \/ gls = {} THEN Null
       ELSE CHOOSE g \in low : \A h \in low : GLRank(g) <= GLRank(h)

\* .sort_values("cnt", ascending=False).drop_duplicates("Vendor"): the first
\* row of the vendor after the sort.  Equal counts stay in group order under a
\* stable sort; the default quicksort is free to leave them otherwise.
vendor_gl_mode(ap, v) ==
    LET gls == VendorGLs(ap, v)
        top == {g \in gls : \A h \in gls : VendorGLCount(ap, v, g) >= VendorGLCount(ap, v, h)}
    IN IF v = Null \/ gls = {} THEN Null
       ELSE IF quicksortTies = "kept"
            THEN CHOOSE g \in top : \A h \in top : GLRank(g) <= GLRank(h)
            ELSE CHOOSE g \in top : \A h \in top : GLRank(g) >= GLRank(h)

\* validate_ap, lines 56-78: type safety and the five flags.
ap_flags(ap) ==
    LET typed == [i \in 1..Len(ap) |->
                    [ap[i] EXCEPT
                       !.Total_Invoice_Amount = to_numeric_fillna0(@),
                       !.Expected_Total = to_numeric_fillna0(@)]]
    IN [i \in 1..Len(ap) |->
          LET r == typed[i]
              mode_gl == vendor_gl_mode(typed, r.Vendor)
          IN [amount_mismatch |-> Abs(r.Total_Invoice_Amount - r.Expected_Total) > 25,
              missing_in_GL |-> \/ r.AP_Match_Key = Null
                                \/ Strip(r.AP_Match_Key) = ""
                                \/ r.AP_Match_Key = "Missing",
              late_posting |-> /\ r.Unpaid_AsOfYE = TRUE
                               /\ r.Invoice_Date # <<>>
                               /\ YEAR_END - r.Invoice_Date[1] > 60,
              duplicate_invoice_number |->
                  \E j \in 1..Len(typed) :
                      /\ j # i
                      /\ typed[j].Vendor = r.Vendor
                      /\ typed[j].Invoice_ID = r.Invoice_ID,
              mode_gl |-> mode_gl,
              unusual_GL_account |->
                  r.GL_Account = Null \/ mode_gl = Null \/ r.GL_Account # mode_gl]
             @@ r]

\* The slip: a null key never matches (SQL join semantics) and matches are
\* looked up by vendor-less key only when the key is a real one.
bank_merge_ap_sql(bank, ap) ==
    Flatten([i \in 1..Len(bank) |->
        LET b == bank[i]
            hits == SelectSeq(ap, LAMBDA a : a.AP_Match_Key = b.Match_Key
                                             /\ b.Match_Key \notin {Null, "Missing"})
        IN IF hits = <<>>
           THEN << ("Invoice_Amount" :> <<>>) @@ b >>
           ELSE [j \in 1..Len(hits) |->
                   ("Invoice_Amount" :> <<hits[j].Total_Invoice_Amount>>) @@ b]])

\* bank.merge(ap_join, on="Match_Key", how="left"): one output row per matching
\* AP row, in AP order; a bank row with no match is kept with a null
\* Invoice_Amount.  pandas matches a null key with a null key.
bank_merge_ap(bank, ap) ==
    Flatten([i \in 1..Len(bank) |->
        LET b == bank[i]
            hits == SelectSeq(ap, LAMBDA a : a.AP_Match_Key = b.Match_Key)
        IN IF hits = <<>>
           THEN << ("Invoice_Amount" :> <<>>) @@ b >>
           ELSE [j \in 1..Len(hits) |->
                   ("Invoice_Amount" :> <<hits[j].Total_Invoice_Amount>>) @@ b]])

\* The amounts at the indices S in ascending order.
RECURSIVE SortedAmounts(_, _)
SortedAmounts(t, S) ==
    IF S = {} THEN <<>>
    ELSE LET i == CHOOSE k \in S :
                    \A m \in S : t[k].Amount < t[m].Amount
                                 \/ (t[k].Amount = t[m].Amount /\ k <= m)
         IN <<t[i].Amount>> \o SortedAmounts(t, S \ {i})

\* groupby("Vendor")["Amount"].quantile(0.90), linear interpolation, in tenths;
\* a null vendor has no group.
q90_tenths(t, v) ==
    LET a == SortedAmounts(t, {i \in 1..Len(t) : t[i].Vendor = v})
        n == Len(a)
        pos == 9 * (n - 1)
        lo == (pos \div 10) + 1
        frac == pos % 10
    IN IF v = Null \/ n = 0 THEN <<>>
       ELSE IF frac = 0 THEN <<10 * a[lo]>>
       ELSE <<10 * a[lo] + frac * (a[lo + 1] - a[lo])>>

\* validate_bank, lines 94-109.
bank_flags(bank, ap) ==
    LET typed == [i \in 1..Len(bank) |->
                    [bank[i] EXCEPT !.Amount = to_numeric_fillna0(@)]]
        merged == bank_merge_ap(typed, ap)
    IN [i \in 1..Len(merged) |->
          LET r == merged[i]
              q90 == q90_tenths(merged, r.Vendor)
          IN [no_matching_invoice |-> r.Invoice_Amount = <<>>,
              duplicate_payment |-> r.Duplicate_Payment_Flag = TRUE,
              amount_mismatch |-> Abs(r.Amount - fillna0(r.Invoice_Amount)) > 1,
              q90 |-> q90,
              unusual_vendor_payment |-> q90 # <<>> /\ 10 * r.Amount > q90[1],
              invoice_marked_paid_but_no_bank_txn |-> FALSE]
             @@ r]

\* str.contains(word, case=False, na=False) on the account names of the model.
AccountWords(account) ==
    CASE account = "Sales Tax Payable" -> {"Tax"}
      [] account = "Lease Liability" -> {"Lease"}
      [] account = "ROU Asset" -> {"ROU"}
      [] account = "Operating Lease ROU Asset" -> {"Lease", "ROU"}
      [] OTHER -> {}

\* gl[gl["Account"].str.contains(word, ...)]["Ending_Balance"].sum()
gl_balance(gl, word) ==
    LET S == {i \in 1..Len(gl) : word \in AccountWords(gl[i].Account)}
    IN SumSet(S, [i \in S |-> gl[i].Ending_Balance])

\* tax.merge(rates[["State", "Ref_Tax_Rate"]], on="State", how="left")
tax_merge_rates(tax, rates) ==
    Flatten([i \in 1..Len(tax) |->
        LET t == tax[i]
            hits == SelectSeq(rates, LAMBDA q : q.Tax_Jurisdiction = t.State)
        IN IF hits = <<>>
           THEN << ("Ref_Tax_Rate" :> <<>>) @@ t >>
           ELSE [j \in 1..Len(hits) |->
                   ("Ref_Tax_Rate" :> hits[j].Total_Tax_Rate_2025) @@ t]])

\* np.isclose(a, b, atol=0.0001, equal_nan=True) on rates in millionths:
\* |a - b| <= atol + rtol * |b| with the default rtol of 1e-5.
isclose(a, b) ==
    IF a = <<>> \/ b = <<>> THEN a = <<>> /\ b = <<>>
    ELSE 100000 * Abs(a[1] - b[1]) <= 100000 * 100 + Abs(b[1])

\* validate_tax, lines 127-148.
tax_flags(tax, gl, rates) ==
    LET typed == [i \in 1..Len(tax) |->
                    [tax[i] EXCEPT
                       !.Taxable_Amount = to_numeric_fillna0(@),
                       !.Calculated_Tax = to_numeric_fillna0(@),
                       !.Recalc_Tax = to_numeric_fillna0(@)]]
        merged == tax_merge_rates(typed, rates)
        gl_tax_balance == gl_balance(gl, "Tax")
        invoice_tax_total ==
            SumSet(1..Len(merged), [i \in 1..Len(merged) |-> merged[i].Calculated_Tax])
    IN [i \in 1..Len(merged) |->
          LET r == merged[i]
          IN [jurisdiction_missing |-> r.State = Null \/ Strip(r.State) = "",
              rate_mismatch |-> ~isclose(r.Tax_Rate, r.Ref_Tax_Rate),
              tax_missing |-> r.Taxable_Amount > 0 /\ r.Calculated_Tax = 0,
              tax_on_nontaxable_item |-> r.Taxable_Amount = 0 /\ r.Calculated_Tax > 0,
              tax_diff_abs |-> Abs(r.Calculated_Tax - r.Recalc_Tax),
              gl_tax_diff_flag |-> Abs(gl_tax_balance - invoice_tax_total) > 100]
             @@ r]

\* validate_leases, lines 165-180.
lease_flags(leases, gl) ==
    LET ids == {leases[i].Lease_ID : i \in 1..Len(leases)} \ {Null}
        rowsOf(id) == {i \in 1..Len(leases) : leases[i].Lease_ID = id}
        sched_liability ==
            SumSet(ids, [id \in ids |->
                MaxOf({leases[i].Ending_Lease_Liability : i \in rowsOf(id)})])
        sched_rou ==
            SumSet(ids, [id \in ids |->
                MaxOf({leases[i].ROU_Asset_Balance : i \in rowsOf(id)})])
    IN [i \in 1..Len(leases) |->
          LET r == leases[i]
          IN [ip_sum_mismatch |-> r.IP_Sum_Mismatch_Flag = TRUE,
              missing_periods |-> r.Sequence_Check = "Sequence Error",
              schedule_to_GL_liability_diff_flag |->
                  Abs(gl_balance(gl, "Lease") - sched_liability) > 0,
              schedule_to_GL_ROU_diff_flag |->
                  Abs(gl_balance(gl, "ROU") - sched_rou) > 0,
              incorrect_opening_entry |-> FALSE,
              classification_flag |-> FALSE]
             @@ r]

\* load_table(table_name): SELECT * of the warehouse table.
load_table(table_name) == source[table_name]

NoFile == [exists |-> FALSE, rows |-> <<>>]

\* The slip: the CSV is opened for appending.
write_output_append(t, filename) ==
    [exists |-> TRUE, rows |-> output[filename].rows \o t]

\* df.to_csv("output/<filename>", index=False): the file is replaced.
write_output(t, filename) == [exists |-> TRUE, rows |-> t]

\* The slips: Bank is validated before AP; a domain is scored before flagging.
RunOrderBankFirst == <<"Bank", "AP", "Tax", "Lease">>

StepOrderScoreFirst == <<"load", "score", "flag", "write">>

\* The slip: a failed domain is skipped and the run goes on.
AbortTargetContinue == IF cur < 4 THEN "skip" ELSE "aborted"

\* run_pipeline: validate_ap, validate_bank(ap), validate_tax, validate_leases.
RunOrder == <<"AP", "Bank", "Tax", "Lease">>

\* Every validate_*: load_table, the flag columns, the scorer applied to
\* every row, write_output.
StepOrder == <<"load", "flag", "score", "write">>

\* An exception raised in validate_* is caught nowhere: run_pipeline ends.
AbortTarget == "aborted"

CurDomain == RunOrder[cur]

StepIndex(step) == CHOOSE k \in 1..Len(StepOrder) : StepOrder[k] = step

\* Where control is after `step` of the current domain has completed.
After(step) ==
    IF StepIndex(step) < Len(StepOrder)
    THEN [pc |-> StepOrder[StepIndex(step) + 1], cur |-> cur]
    ELSE IF cur < Len(RunOrder)
         THEN [pc |-> StepOrder[1], cur |-> cur + 1]
         ELSE [pc |-> "done", cur |-> cur]

\* The flag columns of a domain, computed over the whole table.
Detect(d) ==
    CASE d = "AP" -> ap_flags(df["AP"])
      [] d = "Bank" -> bank_flags(df["Bank"], df["AP"])
      [] d = "Tax" -> tax_flags(df["Tax"], load_table("GL"), load_table("Rates"))
      [] d = "Lease" -> lease_flags(df["Lease"], load_table("GL"))

\* df["risk_score"], df["risk_level"] = zip(*df.apply(score_x_row, axis=1))
apply_score(d, t) ==
    [i \in 1..Len(t) |->
        LET s == ScoreRowOf(d, t[i])
        IN ("risk_score" :> s.score) @@ ("risk_level" :> s.level) @@ t[i]]

NoSnapshot == [valid |-> FALSE, output |-> [d \in Domains |-> NoFile],
               df |-> [d \in Domains |-> <<>>]]

\* run_pipeline is invoked: every dataframe of the run is new.
StartRun ==
    /\ pc \in {"idle", "done", "aborted"}
    /\ runsLeft > 0
    /\ runsLeft' = runsLeft - 1
    /\ pc' = StepOrder[1]
    /\ cur' = 1
    /\ df' = [d \in Domains |-> <<>>]
    /\ stage' = [d \in Domains |-> "none"]
    /\ lastDone' = IF pc = "done"
                   THEN [valid |-> TRUE, output |-> output, df |-> df]
                   ELSE lastDone
    /\ UNCHANGED <<source, quicksortTies, output, scoreVars, dashVars>>

Load ==
    /\ pc = "load"
    /\ df' = [df EXCEPT ![CurDomain] = load_table(CurDomain)]
    /\ stage' = [stage EXCEPT ![CurDomain] = "loaded"]
    /\ pc' = After("load").pc
    /\ cur' = After("load").cur
    /\ UNCHANGED <<source, quicksortTies, runsLeft, output, lastDone, scoreVars, dashVars>>

Flag ==
    /\ pc = "flag"
    /\ df' = [df EXCEPT ![CurDomain] = Detect(CurDomain)]
    /\ stage' = [stage EXCEPT ![CurDomain] = "flagged"]
    /\ pc' = After("flag").pc
    /\ cur' = After("flag").cur
    /\ UNCHANGED <<source, quicksortTies, runsLeft, output, lastDone, scoreVars, dashVars>>

Score ==
    /\ pc = "score"
    /\ df' = [df EXCEPT ![CurDomain] = apply_score(CurDomain, df[CurDomain])]
    /\ stage' = [stage EXCEPT ![CurDomain] = "scored"]
    /\ pc' = After("score").pc
    /\ cur' = After("score").cur
    /\ UNCHANGED <<source, quicksortTies, runsLeft, output, lastDone, scoreVars, dashVars>>

Write ==
    /\ pc = "write"
    /\ output' = [output EXCEPT ![CurDomain] = write_output(df[CurDomain], CurDomain)]
    /\ stage' = [stage EXCEPT ![CurDomain] = "written"]
    /\ pc' = After("write").pc
    /\ cur' = After("write").cur
    /\ UNCHANGED <<source, quicksortTies, runsLeft, df, lastDone, scoreVars, dashVars>>

\* load_table, a flag expression or a scorer raises (unreadable table, schema
\* mismatch): the exception leaves validate_* and run_pipeline.
Fail ==
    /\ pc \in {"load", "flag", "score"}
    /\ IF AbortTarget = "aborted"
       THEN pc' = "aborted" /\ cur' = cur
       ELSE pc' = StepOrder[1] /\ cur' = cur + 1
    /\ UNCHANGED <<source, quicksortTies, runsLeft, df, stage, output, lastDone, scoreVars, dashVars>>

\* ------------------------------------------------- the warehouse's content
APRow(v, inv, gl, key, total, expected, date, unpaid) ==
    [Vendor |-> v, Invoice_ID |-> inv, GL_Account |-> gl, AP_Match_Key |-> key,
     Total_Invoice_Amount |-> total, Expected_Total |-> expected,
     Invoice_Date |-> date, Unpaid_AsOfYE |-> unpaid]

BankRow(v, key, amount, dup) ==
    [Vendor |-> v, Match_Key |-> key, Amount |-> amount, Duplicate_Payment_Flag |-> dup]

TaxRow(inv, state, rate, taxable, calc, recalc) ==
    [Invoice_ID |-> inv, State |-> state, Tax_Rate |-> rate, Taxable_Amount |-> taxable,
     Calculated_Tax |-> calc, Recalc_Tax |-> recalc]

LeaseRow(id, ip, seq, liability, rou) ==
    [Lease_ID |-> id, IP_Sum_Mismatch_Flag |-> ip, Sequence_Check |-> seq,
     Ending_Lease_Liability |-> liability, ROU_Asset_Balance |-> rou]

GLRow(account, balance) == [Account |-> account, Ending_Balance |-> balance]

RateRow(state, rate) == [Tax_Jurisdiction |-> state, Total_Tax_Rate_2025 |-> rate]

\* AP rows for the vendor/GL-account mode, and two rows with the other flags.
APPool ==
    {APRow("V1", "INV-1", g, "K1", <<100>>, <<100>>, <<350>>, FALSE) :
        g \in {"6100", "6200", Null}}
    \cup {APRow("V2", "INV-1", g, "K1", <<100>>, <<100>>, <<350>>, FALSE) :
        g \in {"6100", "6200"}}
    \cup {APRow("V1", "INV-2", "6100", Null, <<>>, <<130>>, <<304>>, TRUE),
          APRow(Null, "INV-3", "6100", " ", <<100>>, <<125>>, <<305>>, TRUE)}

\* AP rows for the bank join: a key, a repeated key, the sentinel, a null key.
JoinAPPool ==
    {APRow("V1", "INV-1", "6100", "K1", <<10>>, <<10>>, <<350>>, FALSE),
     APRow("V1", "INV-2", "6100", "K1", <<>>, <<10>>, <<350>>, FALSE),
     APRow("V1", "INV-3", "6100", "Missing", <<10>>, <<10>>, <<350>>, FALSE),
     APRow("V1", "INV-4", "6100", Null, <<10>>, <<10>>, <<350>>, FALSE)}

BankPool ==
    {BankRow("V1", "K1", <<11>>, FALSE),
     BankRow("V1", "K1", <<12>>, FALSE),
     BankRow("V1", "K2", <<1>>, FALSE),
     BankRow("V1", "K2", <<12>>, FALSE),
     BankRow("V1", Null, <<11>>, FALSE),
     BankRow("V2", "Missing", <<12>>, FALSE),
     BankRow(Null, "K1", <<>>, TRUE)}

TaxPool ==
    {TaxRow("T-1", "TX", <<62500>>, taxable, calc, <<1>>) :
        taxable \in {<<>>, <<100>>}, calc \in {<<>>, <<7>>}}
    \cup {TaxRow("T-2", "TX", <<62500>>, <<100>>, <<150>>, <<150>>),
          TaxRow("T-2", "TX", <<62601>>, <<100>>, <<7>>, <<7>>),
          TaxRow("T-2", Null, <<>>, <<100>>, <<7>>, <<7>>),
          TaxRow("T-2", " ", <<62500>>, <<100>>, <<7>>, <<7>>),
          TaxRow("T-2", "CA", <<100101>>, <<100>>, <<7>>, <<7>>)}

LeasePool ==
    {LeaseRow("L1", FALSE, "OK", 100, 50),
     LeaseRow("L1", TRUE, "OK", 80, 50),
     LeaseRow("L1", FALSE, "Sequence Error", 100, 40),
     LeaseRow("L2", FALSE, "OK", 0, 0),
     LeaseRow("L2", TRUE, "Sequence Error", 30, 20),
     LeaseRow(Null, FALSE, "OK", 10, 10)}

DefaultGL ==
    <<GLRow("Sales Tax Payable", 7), GLRow("Lease Liability", 100),
      GLRow("ROU Asset", 50), GLRow("Cash", 500)>>

OtherGL ==
    <<GLRow("Sales Tax Payable", 200), GLRow("Operating Lease ROU Asset", 30),
      GLRow("Lease Liability", 100), GLRow(Null, 5)>>

DefaultRates == <<RateRow("TX", <<62500>>), RateRow("CA", <<100000>>)>>

OtherRates == <<RateRow("TX", <<62500>>), RateRow(Null, <<>>), RateRow("TX", <<62500>>)>>

DefaultAP == <<APRow("V1", "INV-1", "6100", "K1", <<100>>, <<100>>, <<350>>, FALSE)>>

DefaultBank == <<BankRow("V1", "K1", <<100>>, FALSE)>>

DefaultTax == <<TaxRow("T-1", "TX", <<62500>>, <<100>>, <<7>>, <<7>>)>>

DefaultLease == <<LeaseRow("L1", FALSE, "OK", 100, 50)>>

Tables(pool, n) == UNION {[1..k -> pool] : k \in 0..n}

\* One detector's inputs vary at a time; the other tables keep their default.
Sources(nAP, nJoin, nBank, nTax, nLease) ==
    {[AP |-> a, Bank |-> DefaultBank, Tax |-> DefaultTax, Lease |-> DefaultLease,
      GL |-> DefaultGL, Rates |-> DefaultRates] : a \in Tables(APPool, nAP)}
    \cup
    {[AP |-> a, Bank |-> b, Tax |-> DefaultTax, Lease |-> DefaultLease,
      GL |-> DefaultGL, Rates |-> DefaultRates] :
        a \in Tables(JoinAPPool, nJoin), b \in Tables(BankPool, nBank)}
    \cup
    {[AP |-> DefaultAP, Bank |-> DefaultBank, Tax |-> t, Lease |-> DefaultLease,
      GL |-> g, Rates |-> r] :
        t \in Tables(TaxPool, nTax), g \in {DefaultGL, OtherGL},
        r \in {DefaultRates, OtherRates}}
    \cup
    {[AP |-> DefaultAP, Bank |-> DefaultBank, Tax |-> DefaultTax, Lease |-> l,
      GL |-> g, Rates |-> DefaultRates] :
        l \in Tables(LeasePool, nLease), g \in {DefaultGL, OtherGL}}

NoSource == [AP |-> <<>>, Bank |-> <<>>, Tax |-> <<>>, Lease |-> <<>>,
             GL |-> <<>>, Rates |-> <<>>]

ScoreIdle ==
    /\ domain = "none"
    /\ row = EmptyRow
    /\ result = NoResult
    /\ prevResult = NoResult
    /\ probeScore = 0
    /\ probeLevel = "none"

\* The dashboard has not been opened: nothing cached, the widgets at their
\* defaults (no vendor selected, slider at 60).
NoData == [ok |-> FALSE, tables |-> [d \in Domains |-> <<>>]]

DashIdle ==
    /\ loaded = NoData
    /\ vendor_filter = {}
    /\ risk_threshold = 60
    /\ je_rows = <<>>

PipeIdle ==
    /\ source = NoSource
    /\ quicksortTies = "kept"
    /\ pc = "idle"
    /\ cur = 1
    /\ runsLeft = 0
    /\ df = [d \in Domains |-> <<>>]
    /\ stage = [d \in Domains |-> "none"]
    /\ output = [d \in Domains |-> NoFile]
    /\ lastDone = NoSnapshot

PipeStart(S, runs) ==
    /\ \/ quicksortTies = "kept" /\ source \in S
       \/ quicksortTies = "moved" /\ source \in {s \in S : Len(s.AP) >= 2}
    /\ pc = "idle"
    /\ cur = 1
    /\ runsLeft = runs
    /\ df = [d \in Domains |-> <<>>]
    /\ stage = [d \in Domains |-> "none"]
    /\ output = [d \in Domains |-> NoFile]
    /\ lastDone = NoSnapshot
    /\ ScoreIdle
    /\ DashIdle

\* The pipeline with failing steps, on tables of at most one row.
Init == PipeStart(Sources(1, 1, 1, 1, 1), MaxRuns)

Next == StartRun \/ Load \/ Flag \/ Score \/ Write \/ Fail

Spec == Init /\ [][Next]_vars

\* The pipeline with no failing step, run twice on the larger tables.
InitDetect == PipeStart(Sources(MaxAP, MaxJoinAP, MaxBank, MaxTax, MaxLease), 2)

NextDetect == StartRun \/ Load \/ Flag \/ Score \/ Write

SpecDetect == InitDetect /\ [][NextDetect]_vars

\* ------------------------------------------------------------ dashboard.py
\* The columns whose cells are text.
StringColumns ==
    {"Vendor", "Invoice_ID", "GL_Account", "AP_Match_Key", "mode_gl", "Match_Key",
     "State", "Lease_ID", "Sequence_Check", "Account", "risk_level"}

\* pd.read_csv of a file written by to_csv: an empty text cell is read as a
\* null, every other cell of the model as the value that was written.
read_csv(file) ==
    [i \in 1..Len(file.rows) |->
        [c \in DOMAIN file.rows[i] |->
            IF c \in StringColumns /\ file.rows[i][c] = "" THEN Null
            ELSE file.rows[i][c]]]

\* load_data(): the four scored tables; a missing file raises.
load_data == [ok |-> TRUE, tables |-> [d \in Domains |-> read_csv(output[d])]]

\* The positions of the "Minimum Risk Score" slider (0 to 100 in steps of 5).
Thresholds == {5 * k : k \in 0..20}

\* The options of the "Vendor" multiselect.
VendorOptions(ap) == {ap[i].Vendor : i \in 1..Len(ap)} \ {Null}

\* "if vendor_filter: ap_df = ap_df[ap_df["Vendor"].isin(vendor_filter)]"
FilterVendor(t, vf) == IF vf = {} THEN t ELSE SelectSeq(t, LAMBDA r : r.Vendor \in vf)

\* df[df["risk_score"] >= risk_threshold]
HighRisk(t, threshold) == SelectSeq(t, LAMBDA r : r.risk_score >= threshold)

\* round(x, 2): x in thousandths of a currency unit, the result in hundredths
\* (a half goes to the even neighbour).
round2(x) ==
    LET q == x \div 10
        r == x % 10
    IN IF r < 5 THEN q
       ELSE IF r > 5 THEN q + 1
       ELSE IF q % 2 = 0 THEN q ELSE q + 1

JE(src, ref, debit, credit, amount, description) ==
    [Source |-> src, Reference |-> ref, Debit_Account |-> debit,
     Credit_Account |-> credit, Amount |-> amount, Description |-> description]

\* The slip: the amount difference is looked at before the missing invoice.
ap_je_mismatch_first(r) ==
    LET diff == r.Expected_Total - r.Total_Invoice_Amount
    IN IF Get(r, "amount_mismatch", FALSE)
       THEN IF diff > 0
            THEN <<JE("AP", r.Invoice_ID, "Project Expense", "Accounts Payable",
                      round2(1000 * Abs(diff)), "Correct AP under-accrual")>>
            ELSE <<JE("AP", r.Invoice_ID, "Accounts Payable", "Project Expense",
                      round2(1000 * Abs(diff)), "Correct AP over-accrual")>>
       ELSE IF Get(r, "missing_in_GL", FALSE)
       THEN <<JE("AP", r.Invoice_ID, "Project Expense", "Accounts Payable",
                 round2(1000 * r.Expected_Total), "Record missing AP invoice")>>
       ELSE <<>>

\* The body of "for _, row in high_risk_ap.iterrows()": the entries one AP
\* row appends to je_rows.
ap_je(r) ==
    LET diff == r.Expected_Total - r.Total_Invoice_Amount
    IN IF Get(r, "missing_in_GL", FALSE)
       THEN <<JE("AP", r.Invoice_ID, "Project Expense", "Accounts Payable",
                 round2(1000 * r.Expected_Total), "Record missing AP invoice")>>
       ELSE IF Get(r, "amount_mismatch", FALSE)
       THEN IF diff > 0
            THEN <<JE("AP", r.Invoice_ID, "Project Expense", "Accounts Payable",
                      round2(1000 * Abs(diff)), "Correct AP under-accrual")>>
            ELSE <<JE("AP", r.Invoice_ID, "Accounts Payable", "Project Expense",
                      round2(1000 * Abs(diff)), "Correct AP over-accrual")>>
       ELSE <<>>

\* The body of the loop over high_risk_tax.
tax_je(r) ==
    LET tax_diff == r.Recalc_Tax - r.Calculated_Tax
    IN IF Abs(tax_diff) > 1
       THEN <<JE("Tax", r.Invoice_ID, "Sales Tax Expense", "Sales & Use Tax Payable",
                 round2(1000 * Abs(tax_diff)), "True-up sales tax")>>
       ELSE <<>>

\* The body of the loop over high_risk_leases: 1% of the ending liability.
lease_je(r) ==
    <<JE("Lease", r.Lease_ID, "Lease Liability", "Prior Period Adjustment",
         round2(Abs(r.Ending_Lease_Liability * 10)), "Adjust lease liability")>>

\* je_rows after the three loops: AP, then Tax, then Lease, each in row order.
journal_entries(tables, threshold, vf) ==
    LET high_risk_ap == HighRisk(FilterVendor(tables["AP"], vf), threshold)
        high_risk_tax == HighRisk(tables["Tax"], threshold)
        high_risk_leases == HighRisk(tables["Lease"], threshold)
    IN Flatten([i \in 1..Len(high_risk_ap) |-> ap_je(high_risk_ap[i])])
       \o Flatten([i \in 1..Len(high_risk_tax) |-> tax_je(high_risk_tax[i])])
       \o Flatten([i \in 1..Len(high_risk_leases) |-> lease_je(high_risk_leases[i])])

\* One run of the dashboard script with the slider at t and the vendors vf
\* selected: load_data (cached after its first success), the filters, the
\* journal entry table.
Script(t, vf) ==
    /\ loaded.ok \/ \A d \in Domains : output[d].exists
    /\ loaded' = IF loaded.ok THEN loaded ELSE load_data
    /\ vf \subseteq VendorOptions(loaded'.tables["AP"])
    /\ risk_threshold' = t
    /\ vendor_filter' = vf
    /\ je_rows' = journal_entries(loaded'.tables, t, vf)
    /\ UNCHANGED <<scoreVars, pipeVars>>

\* The page is opened: the script runs with the widgets at their defaults.
Open == ~loaded.ok /\ Script(risk_threshold, vendor_filter)

\* The slider is moved, or the vendor selection changed: the script reruns.
SetThreshold(t) == loaded.ok /\ t # risk_threshold /\ Script(t, vendor_filter)

SetVendors(vf) == loaded.ok /\ vf # vendor_filter /\ Script(risk_threshold, vf)

\* AP rows for the journal entries: no flag, an under- and an over-accrual,
\* a missing invoice with and without a mismatch, with an expected total
\* that is positive, zero (a null cell) and negative.
JEAPPool ==
    {APRow("V1", "INV-1", "6100", "K1", <<100>>, <<100>>, <<350>>, FALSE),
     APRow("V1", "INV-2", "6100", "K1", <<100>>, <<130>>, <<350>>, FALSE),
     APRow("V1", "INV-3", "6100", "K1", <<130>>, <<100>>, <<350>>, FALSE),
     APRow("V2", "INV-4", "6100", Null, <<100>>, <<130>>, <<350>>, FALSE),
     APRow("V2", "INV-5", "6100", "Missing", <<100>>, <<100>>, <<350>>, FALSE),
     APRow("V2", "INV-6", "6100", Null, <<>>, <<>>, <<350>>, FALSE),
     APRow("V1", "INV-7", "6100", " ", <<100>>, <<-40>>, <<350>>, FALSE)}

JESources(nAP) ==
    {[AP |-> a, Bank |-> DefaultBank, Tax |-> DefaultTax, Lease |-> DefaultLease,
      GL |-> DefaultGL, Rates |-> DefaultRates] : a \in Tables(JEAPPool, nAP)}
    \cup Sources(0, 0, 0, 1, 1)

\* The pipeline run once, then the dashboard opened and its widgets moved.
InitJE == PipeStart(JESources(MaxJEAP), 1)

NextJE ==
    \/ StartRun \/ Load \/ Flag \/ Score \/ Write
    \/ Open
    \/ \E t \in Thresholds : SetThreshold(t)
    \/ \E vf \in SUBSET {"V1", "V2"} : SetVendors(vf)

SpecJE == InitJE /\ [][NextJE]_vars

\* --------------------------------------------------------- scorer harness
\* Rows a scorer may be handed: every flag true, false or absent.
FlagRows(F) == UNION {[D -> BOOLEAN] : D \in SUBSET F}

TaxDiffCells == {EmptyRow} \cup {("tax_diff_abs" :> v) : v \in 0..MaxTaxDiff}

HarnessRows(d) ==
    IF d = "Tax"
    THEN {f @@ t : f \in FlagRows(TaxFlags), t \in TaxDiffCells}
    ELSE FlagRows(FlagsOf(d))

InitScore ==
    /\ domain \in Domains \cup {"Band"}
    /\ IF domain = "Band"
       THEN row = EmptyRow /\ probeScore \in 0..MaxProbe
       ELSE row \in HarnessRows(domain) /\ probeScore = 0
    /\ result = NoResult
    /\ prevResult = NoResult
    /\ probeLevel = "none"
    /\ PipeIdle
    /\ DashIdle

\* One call of the domain's scorer on the row.
ScoreRow ==
    /\ domain \in Domains
    /\ result = NoResult
    /\ result' = ScoreRowOf(domain, row)
    /\ UNCHANGED <<domain, row, prevResult, probeScore, probeLevel, pipeVars, dashVars>>

\* The same record with one more flag true, scored again.
SetFlag(f) ==
    /\ domain \in Domains
    /\ result # NoResult
    /\ f \in FlagsOf(domain)
    /\ ~Get(row, f, FALSE)
    /\ row' = (f :> TRUE) @@ row
    /\ prevResult' = result
    /\ result' = ScoreRowOf(domain, row')
    /\ UNCHANGED <<domain, probeScore, probeLevel, pipeVars, dashVars>>

\* One call of classify_risk on a bare score.
Classify ==
    /\ domain = "Band"
    /\ probeLevel = "none"
    /\ probeLevel' = classify_risk(probeScore)
    /\ UNCHANGED <<domain, row, result, prevResult, probeScore, pipeVars, dashVars>>

NextScore ==
    \/ ScoreRow
    \/ \E f \in APFlags \cup BankFlags \cup TaxFlags \cup LeaseFlags : SetFlag(f)
    \/ Classify

SpecScore == InitScore /\ [][NextScore]_vars

\* ------------------------------------------------ claims about the scorers
Bands == {LOW, MEDIUM, HIGH, CRITICAL}

BandRank(b) ==
    CASE b = LOW -> 1
      [] b = MEDIUM -> 2
      [] b = HIGH -> 3
      [] b = CRITICAL -> 4
      [] OTHER -> 0

\* The flags of the domain that are true in the row (an absent flag is not).
TrueFlags(d, r) == {f \in FlagsOf(d) : Get(r, f, FALSE)}

RECURSIVE SumOver(_, _)
SumOver(S, w) ==
    IF S = {} THEN 0
    ELSE LET x == CHOOSE y \in S : TRUE IN w[x] + SumOver(S \ {x}, w)

\* The weight table of the design: one fixed weight per flag and domain.
WeightTable(d) ==
    CASE d = "AP" ->
           [f \in APFlags |->
              CASE f = "late_posting" -> 10
                [] f = "amount_mismatch" -> 30
                [] f = "unusual_GL_account" -> 25
                [] f = "duplicate_invoice_number" -> 40
                [] f = "missing_in_GL" -> 60]
      [] d = "Bank" ->
           [f \in BankFlags |->
              CASE f = "unusual_vendor_payment" -> 10
                [] f = "amount_mismatch" -> 25
                [] f = "invoice_marked_paid_but_no_bank_txn" -> 40
                [] f = "no_matching_invoice" -> 50
                [] f = "duplicate_payment" -> 60]
      [] d = "Tax" ->
           [f \in TaxFlags |->
              CASE f = "jurisdiction_missing" -> 15
                [] f = "rate_mismatch" -> 30
                [] f = "tax_missing" -> 40
                [] f = "tax_on_nontaxable_item" -> 35
                [] f = "gl_tax_diff_flag" -> 25]
      [] d = "Lease" ->
           [f \in LeaseFlags |->
              CASE f = "schedule_to_GL_liability_diff_flag" -> 20
                [] f = "schedule_to_GL_ROU_diff_flag" -> 20
                [] f = "missing_periods" -> 40
                [] f = "incorrect_opening_entry" -> 50
                [] f = "classification_flag" -> 45
                [] f = "ip_sum_mismatch" -> 50]

\* The combination bonuses: every flag of "all" true and, when "any" is not
\* empty, at least one flag of "any" true.
ComboTable(d) ==
    CASE d = "AP" ->
           {[all |-> {"missing_in_GL"}, any |-> APFlags \ {"missing_in_GL"}, bonus |-> 20]}
      [] d = "Bank" ->
           {[all |-> {"duplicate_payment", "amount_mismatch"}, any |-> {}, bonus |-> 15],
            [all |-> {"no_matching_invoice"},
             any |-> BankFlags \ {"no_matching_invoice"}, bonus |-> 20]}
      [] d = "Tax" ->
           {[all |-> {"tax_missing", "rate_mismatch"}, any |-> {}, bonus |-> 65],
            [all |-> {"tax_missing", "gl_tax_diff_flag"}, any |-> {}, bonus |-> 70],
            [all |-> {"tax_on_nontaxable_item", "rate_mismatch"}, any |-> {}, bonus |-> 60]}
      [] d = "Lease" ->
           {[all |-> {"schedule_to_GL_liability_diff_flag", "missing_periods"},
             any |-> {}, bonus |-> 30],
            [all |-> {"schedule_to_GL_ROU_diff_flag", "incorrect_opening_entry"},
             any |-> {}, bonus |-> 35]}

ComboHolds(c, T) == c.all \subseteq T /\ (c.any = {} \/ c.any \cap T # {})

DomainFloor == [d \in Domains |-> IF d = "Tax" THEN 85 ELSE 90]

\* 5 + the weights of the true flags + the bonuses whose condition holds.
RawSum(d, r) ==
    LET T == TrueFlags(d, r)
        held == {c \in ComboTable(d) : ComboHolds(c, T)}
    IN 5 + SumOver(T, WeightTable(d)) + SumOver(held, [c \in held |-> c.bonus])

\* The +10 of the tax scorer for a per-invoice difference above 5.
TaxDiffBump(d, r) == IF d = "Tax" /\ Get(r, "tax_diff_abs", 0) > 5 THEN 10 ELSE 0

Raised(d, r, s) == IF Cardinality(TrueFlags(d, r)) >= 3 THEN Max(s, DomainFloor[d]) ELSE s

ClaimedScore(d, r) == Min(100, Raised(d, r, RawSum(d, r)))

AmendedScore(d, r) == Min(100, Raised(d, r, RawSum(d, r) + TaxDiffBump(d, r)))

Scored == domain \in Domains /\ result # NoResult

\* C1: every scorer returns a score in [0,100] and a level that is one of the
\* four bands and the band of that score (<= 20 Low, <= 40 Medium, <= 70 High,
\* above 70 Critical), for every flag combination and every tax_diff_abs.
C1_ScoreAndBand ==
    Scored =>
        /\ result.score \in 0..100
        /\ result.level \in Bands
        /\ (result.score <= 20) = (result.level = LOW)
        /\ (result.score > 20 /\ result.score <= 40) = (result.level = MEDIUM)
        /\ (result.score > 40 /\ result.score <= 70) = (result.level = HIGH)
        /\ (result.score > 70) = (result.level = CRITICAL)

\* A tax row with a large per-invoice difference whose raw sum passes 100.
C1_Witness ==
    /\ Scored
    /\ domain = "Tax"
    /\ Get(row, "tax_diff_abs", 0) > 5
    /\ RawSum(domain, row) > 100
    /\ result.score = 100
    /\ result.level = CRITICAL

\* C2: a record with three or more true flags scores at least the domain floor
\* (AP 90, Bank 90, Tax 85, Lease 90), and the floor rule never lowers a score:
\* the final score is never below the clamped sum it was applied to.
C2_Floor ==
    Scored =>
        /\ (Cardinality(TrueFlags(domain, row)) >= 3 => result.score >= DomainFloor[domain])
        /\ result.score >= Min(100, RawSum(domain, row) + TaxDiffBump(domain, row))

\* Three flags whose weights sum below the floor: the floor rule raised the score.
C2_Witness ==
    /\ Scored
    /\ Cardinality(TrueFlags(domain, row)) = 3
    /\ RawSum(domain, row) + TaxDiffBump(domain, row) < DomainFloor[domain]
    /\ result.score = DomainFloor[domain]

\* C3: setting one more flag to true, all else fixed, never decreases the score.
C3_Monotone ==
    (domain \in Domains /\ prevResult # NoResult) => result.score >= prevResult.score

\* A flag was added to a scored record and the score rose across the floor.
C3_Witness ==
    /\ domain \in Domains
    /\ prevResult # NoResult
    /\ prevResult.score < 90
    /\ result.score > prevResult.score
    /\ Cardinality(TrueFlags(domain, row)) = 3

\* The four bands of the design as score ranges.
BandRange(b) ==
    CASE b = LOW -> 0..20
      [] b = MEDIUM -> 21..40
      [] b = HIGH -> 41..70
      [] b = CRITICAL -> 71..100

\* C4: the bands partition [0,100] with closed upper bounds: classify_risk puts
\* every score of [0,100] in the one band whose range holds it (20 Low, 21
\* Medium, 40 Medium, 41 High, 70 High, 71 Critical), and the band never
\* decreases as the score grows.
C4_Bands ==
    (domain = "Band" /\ probeLevel # "none") =>
        /\ probeLevel \in Bands
        /\ probeScore <= 100 =>
               {b \in Bands : probeScore \in BandRange(b)} = {probeLevel}
        /\ probeScore = 20 => probeLevel = LOW
        /\ probeScore = 21 => probeLevel = MEDIUM
        /\ probeScore = 40 => probeLevel = MEDIUM
        /\ probeScore = 41 => probeLevel = HIGH
        /\ probeScore = 70 => probeLevel = HIGH
        /\ probeScore = 71 => probeLevel = CRITICAL
        /\ \A s \in 0..probeScore : BandRank(classify_risk(s)) <= BandRank(probeLevel)

\* A boundary score has been classified.
C4_Witness == domain = "Band" /\ probeScore = 40 /\ probeLevel = MEDIUM

\* C5 as stated: the final score is min(100, F(5 + weights + bonuses)) in every
\* domain.  The tax scorer also adds 10 for tax_diff_abs > 5, so this fails.
C5_Original == Scored => result.score = ClaimedScore(domain, row)

\* C5 amended: the final score is min(100, F(5 + weights of the true flags +
\* every bonus whose condition holds + 10 for a tax row with tax_diff_abs > 5));
\* AP {missing_in_GL, duplicate_invoice_number} and Tax {tax_missing,
\* gl_tax_diff_flag} both score 100, Critical.
C5_Amended ==
    Scored =>
        /\ result.score = AmendedScore(domain, row)
        /\ (domain = "AP"
            /\ TrueFlags(domain, row) = {"missing_in_GL", "duplicate_invoice_number"})
           => (RawSum(domain, row) = 125 /\ result.score = 100 /\ result.level = CRITICAL)
        /\ (domain = "Tax"
            /\ TrueFlags(domain, row) = {"tax_missing", "gl_tax_diff_flag"})
           => (RawSum(domain, row) = 140 /\ result.score = 100 /\ result.level = CRITICAL)

\* A tax row where the +10 shows in the final score.
C5_Witness ==
    /\ Scored
    /\ domain = "Tax"
    /\ TrueFlags(domain, row) = {"jurisdiction_missing"}
    /\ Get(row, "tax_diff_abs", 0) > 5
    /\ result.score = 30

\* ------------------------------------------------ claims about the pipeline
\* The columns a detector adds before its scorer runs.
FlagColumns(d) == IF d = "Tax" THEN TaxFlags \cup {"tax_diff_abs"} ELSE FlagsOf(d)

Started(d) == stage[d] # "none"

Flagged(d) == stage[d] \in {"flagged", "scored", "written"}

\* C6: within a domain every record has all its flags before any record has a
\* score, and nothing of Bank validation happens before AP validation has
\* flagged, scored and written its table.
C6_Ordering ==
    /\ \A d \in Domains :
          (\E i \in 1..Len(df[d]) : "risk_score" \in DOMAIN df[d][i])
          => /\ Flagged(d)
             /\ \A i \in 1..Len(df[d]) : FlagColumns(d) \subseteq DOMAIN df[d][i]
    /\ Started("Bank") => stage["AP"] = "written" /\ output["AP"].exists

\* Bank has joined a scored, written AP table and is itself scored.
C6_Witness ==
    /\ stage["Bank"] = "scored"
    /\ stage["AP"] = "written"
    /\ Len(df["Bank"]) = 1
    /\ df["Bank"][1].Invoice_Amount # <<>>
    /\ "risk_score" \in DOMAIN df["Bank"][1]
    /\ output["AP"].rows = df["AP"]

\* C7: when load, flagging or scoring of a domain fails the run is over: that
\* domain's table is not written in this run and no later domain of
\* AP, Bank, Tax, Lease is loaded, flagged, scored or written.
C7_Abort ==
    pc = "aborted" =>
        /\ stage[CurDomain] \in {"none", "loaded", "flagged"}
        /\ \A k \in 1..Len(RunOrder) : k > cur => stage[RunOrder[k]] = "none"
        /\ \A k \in 1..Len(RunOrder) : k < cur => stage[RunOrder[k]] = "written"

\* Bank scoring failed in the first run: AP is on disk, Bank, Tax, Lease are not.
C7_Witness ==
    /\ pc = "aborted"
    /\ CurDomain = "Bank"
    /\ stage["Bank"] = "flagged"
    /\ output["AP"].exists
    /\ ~output["Bank"].exists
    /\ ~output["Tax"].exists
    /\ ~output["Lease"].exists

\* C8: a second complete run on the same warehouse tables ends with the same
\* tables, flag for flag and score for score, in the dataframes and on disk.
C8_Idempotent ==
    (pc = "done" /\ lastDone.valid) =>
        /\ df = lastDone.df
        /\ output = lastDone.output

\* Two complete runs over an AP table with a tie and a risky record.
C8_Witness ==
    /\ pc = "done"
    /\ lastDone.valid
    /\ Len(source.AP) = 3
    /\ Len(output["AP"].rows) = 3
    /\ output["AP"].rows[1].risk_score > 5
    /\ output["AP"].rows[1].unusual_GL_account

\* The records of the AP table the claims count over.
APOf(v) == {i \in 1..Len(source.AP) : source.AP[i].Vendor = v}

GLCount(v, g) == Cardinality({i \in APOf(v) : source.AP[i].GL_Account = g})

\* The vendor's most frequent GL accounts (a null cell is no account).
TopGLs(v) ==
    LET gls == {source.AP[i].GL_Account : i \in APOf(v)} \ {Null}
    IN IF v = Null THEN {}
       ELSE {g \in gls : \A h \in gls : GLCount(v, g) >= GLCount(v, h)}

FirstSeen(v, g) ==
    CHOOSE i \in APOf(v) :
        /\ source.AP[i].GL_Account = g
        /\ \A j \in APOf(v) : source.AP[j].GL_Account = g => i <= j

\* Of the tied accounts, the one met first in the table.
FirstSeenMode(v) ==
    CHOOSE g \in TopGLs(v) : \A h \in TopGLs(v) : FirstSeen(v, g) <= FirstSeen(v, h)

\* C9 as stated: unusual_GL_account is true exactly when the record's account
\* differs from its vendor's most frequent account, a tie going to the account
\* met first in dataset order (a record with no account, or whose vendor has
\* none, differs).
C9_Original ==
    Flagged("AP") =>
        \A i \in 1..Len(df["AP"]) :
            LET r == df["AP"][i]
            IN r.unusual_GL_account =
                  (\/ r.GL_Account = Null
                   \/ TopGLs(r.Vendor) = {}
                   \/ r.GL_Account # FirstSeenMode(r.Vendor))

\* C9 amended: unusual_GL_account is true exactly when the record's account is
\* null or differs from its vendor's mode, the mode being one of the most
\* frequent non-null accounts of the vendor, the same one for all its records;
\* which of several tied accounts it is follows the sort of the counts (the
\* lowest account value when the sort keeps equal counts in place), not the
\* dataset order.  A record with no vendor, or whose vendor has no account, is
\* flagged.
C9_Amended ==
    Flagged("AP") =>
        /\ Len(df["AP"]) = Len(source.AP)
        /\ \A i \in 1..Len(df["AP"]) :
              LET r == df["AP"][i]
              IN /\ r.Vendor = source.AP[i].Vendor
                 /\ r.GL_Account = source.AP[i].GL_Account
                 /\ TopGLs(r.Vendor) = {} => r.unusual_GL_account
        /\ \A v \in {source.AP[i].Vendor : i \in 1..Len(source.AP)} :
              TopGLs(v) # {} =>
                  \E m \in TopGLs(v) :
                      /\ \A i \in APOf(v) :
                            df["AP"][i].unusual_GL_account =
                                (source.AP[i].GL_Account = Null
                                 \/ source.AP[i].GL_Account # m)
                      /\ quicksortTies = "kept" =>
                            \A h \in TopGLs(v) : GLRank(m) <= GLRank(h)

\* A vendor with two tied accounts whose mode is not the account met first.
C9_Witness ==
    /\ Flagged("AP")
    /\ \E i \in 1..Len(df["AP"]) :
          LET r == df["AP"][i]
          IN /\ Cardinality(TopGLs(r.Vendor)) = 2
             /\ r.GL_Account = FirstSeenMode(r.Vendor)
             /\ r.unusual_GL_account

\* The AP records that share a match key (a null key is shared by null keys).
Sharers(key) == {j \in 1..Len(source.AP) : source.AP[j].AP_Match_Key = key}

\* C10: on every row of the bank table, no_matching_invoice is true exactly
\* when no AP record has the row's match key, null and "Missing" keys compared
\* like any other; amount_mismatch is true exactly when |Amount - matched
\* invoice amount| > 1, the matched amount being the invoice amount of an AP
\* record with that key, or 0 when there is none.  Every bank transaction is
\* on at least one row.
C10_BankMatch ==
    Flagged("Bank") =>
        /\ \A i \in 1..Len(df["Bank"]) :
              LET r == df["Bank"][i]
                  matched == IF Sharers(r.Match_Key) = {} THEN 0 ELSE r.Invoice_Amount[1]
              IN /\ r.no_matching_invoice = (Sharers(r.Match_Key) = {})
                 /\ r.amount_mismatch = (Abs(r.Amount - matched) > 1)
                 /\ Sharers(r.Match_Key) # {} =>
                       \E j \in Sharers(r.Match_Key) :
                           r.Invoice_Amount =
                               <<to_numeric_fillna0(source.AP[j].Total_Invoice_Amount)>>
        /\ \A k \in 1..Len(source.Bank) :
              \E i \in 1..Len(df["Bank"]) :
                  /\ df["Bank"][i].Match_Key = source.Bank[k].Match_Key
                  /\ df["Bank"][i].Vendor = source.Bank[k].Vendor
                  /\ df["Bank"][i].Amount = to_numeric_fillna0(source.Bank[k].Amount)

\* A transaction with a null key joined to an AP record with a null key, the
\* amounts within 1 of each other.
C10_Witness ==
    /\ Flagged("Bank")
    /\ \E i \in 1..Len(df["Bank"]) :
          LET r == df["Bank"][i]
          IN /\ r.Match_Key = Null
             /\ ~r.no_matching_invoice
             /\ r.Amount = 11
             /\ r.Invoice_Amount = <<10>>
             /\ ~r.amount_mismatch

\* -------------------------------------------- claims about the journal entries
\* The AP records the journal entry loop is given: those of the selected
\* vendors, all of them when no vendor is selected.
APView == FilterVendor(loaded.tables["AP"], vendor_filter)

\* Source, reference, accounts and amount of the entries of one domain.
EntriesOf(src) ==
    LET es == SelectSeq(je_rows, LAMBDA e : e.Source = src)
    IN [i \in 1..Len(es) |->
          [Reference |-> es[i].Reference, Debit_Account |-> es[i].Debit_Account,
           Credit_Account |-> es[i].Credit_Account, Amount |-> es[i].Amount]]

Entry(ref, debit, credit, amount) ==
    [Reference |-> ref, Debit_Account |-> debit, Credit_Account |-> credit,
     Amount |-> amount]

\* What the design has one AP record yield (amounts in hundredths).
ClaimedAPEntry(r) ==
    LET diff == r.Expected_Total - r.Total_Invoice_Amount
    IN IF r.risk_score < risk_threshold THEN <<>>
       ELSE IF r.missing_in_GL
       THEN <<Entry(r.Invoice_ID, "Project Expense", "Accounts Payable",
                    100 * r.Expected_Total)>>
       ELSE IF r.amount_mismatch /\ diff > 0
       THEN <<Entry(r.Invoice_ID, "Project Expense", "Accounts Payable", 100 * diff)>>
       ELSE IF r.amount_mismatch /\ diff < 0
       THEN <<Entry(r.Invoice_ID, "Accounts Payable", "Project Expense", 100 * (-diff))>>
       ELSE <<>>

\* C11: the AP journal entries are, record by record in table order, at most
\* one entry per AP record: for a record at or above the threshold with
\* missing_in_GL, debit Project Expense / credit Accounts Payable for
\* Expected_Total whatever amount_mismatch is; otherwise with amount_mismatch,
\* debit Project Expense / credit Accounts Payable for a positive
\* Expected_Total - Total_Invoice_Amount and the reverse for a negative one, the
\* amount being the absolute difference; no entry for a record below the
\* threshold or with neither flag.  (A flagged mismatch is never a zero
\* difference.)
C11_APEntries ==
    loaded.ok =>
        /\ EntriesOf("AP") =
              Flatten([i \in 1..Len(APView) |-> ClaimedAPEntry(APView[i])])
        /\ \A i \in 1..Len(APView) :
              /\ Len(ClaimedAPEntry(APView[i])) <= 1
              /\ APView[i].amount_mismatch =>
                    APView[i].Expected_Total # APView[i].Total_Invoice_Amount

\* An over-accrual and a missing invoice that also mismatches, both at or
\* above the threshold, next to a record that is in view but yields nothing.
C11_Witness ==
    /\ loaded.ok
    /\ Len(APView) = 2
    /\ risk_threshold = 35
    /\ APView[1].amount_mismatch /\ ~APView[1].missing_in_GL
    /\ APView[1].risk_score = 35
    /\ APView[2].missing_in_GL /\ APView[2].amount_mismatch
    /\ EntriesOf("AP") =
          <<Entry("INV-3", "Accounts Payable", "Project Expense", 3000),
            Entry("INV-4", "Project Expense", "Accounts Payable", 13000)>>

\* C12: every journal entry of the table (AP, Tax or Lease) has a strictly
\* positive amount, whatever scored records at or above the threshold it was
\* built from.  The AP entry of a missing invoice carries Expected_Total as it
\* is and the lease entry 1% of a liability that may be zero, so this fails.
C12_PositiveAmount ==
    loaded.ok => \A i \in 1..Len(je_rows) : je_rows[i].Amount > 0

\* The page as first opened (slider at 60) shows an AP entry for a missing
\* invoice whose amount is not positive.
C12_Witness ==
    /\ loaded.ok
    /\ risk_threshold = 60
    /\ \E i \in 1..Len(je_rows) :
          /\ je_rows[i].Source = "AP"
          /\ je_rows[i].Debit_Account = "Project Expense"
          /\ je_rows[i].Amount <= 0

\* C13: a record that lacks a flag field is scored, and its score and level
\* are exactly those of the same record with that flag present and false.
C13_AbsentIsFalse ==
    Scored =>
        /\ result.score \in 0..100
        /\ result.level \in Bands
        /\ \A f \in FlagsOf(domain) \ DOMAIN row :
              result = ScoreRowOf(domain, (f :> FALSE) @@ row)

\* An AP record that carries missing_in_GL only: the four absent flags add
\* nothing and trigger neither the combination bonus nor the floor.
C13_Witness ==
    /\ Scored
    /\ domain = "AP"
    /\ DOMAIN row = {"missing_in_GL"}
    /\ row.missing_in_GL
    /\ result = [score |-> 65, level |-> HIGH]

\* C14: the bank table keeps one row per bank transaction: once flagged, and
\* so when scored and written, it has exactly as many rows as the bank input,
\* whatever keys the AP records share.  The left merge yields one row per
\* matching AP record, so this fails when a key occurs on several AP records.
C14_OneRowPerTransaction ==
    /\ Flagged("Bank") => Len(df["Bank"]) = Len(source.Bank)
    /\ output["Bank"].exists => Len(output["Bank"].rows) = Len(source.Bank)

\* One transaction whose key is on two AP records is written as two scored rows.
C14_Witness ==
    /\ output["Bank"].exists
    /\ Len(source.Bank) = 1
    /\ Cardinality(Sharers(source.Bank[1].Match_Key)) = 2
    /\ Len(output["Bank"].rows) = 2
    /\ \A i \in 1..2 : /\ output["Bank"].rows[i].Match_Key = source.Bank[1].Match_Key
                       /\ "risk_score" \in DOMAIN output["Bank"].rows[i]

\* C15: on every tax record the detector produces, tax_missing and
\* tax_on_nontaxable_item are not both true, so at most four of the five
\* counted flags are; and a tax_diff_abs above 5 adds 10 to the sum the score
\* is built from without counting as a flag: with fewer than three of the five
\* flags true the floor of 85 is not applied.
C15_TaxFlags ==
    /\ Flagged("Tax") =>
          \A i \in 1..Len(df["Tax"]) :
              LET r == df["Tax"][i]
              IN /\ ~(r.tax_missing /\ r.tax_on_nontaxable_item)
                 /\ Cardinality(TrueFlags("Tax", r)) <= 4
    /\ stage["Tax"] \in {"scored", "written"} =>
          \A i \in 1..Len(df["Tax"]) :
              LET r == df["Tax"][i]
                  n == Cardinality(TrueFlags("Tax", r))
                  bump == IF r.tax_diff_abs > 5 THEN 10 ELSE 0
                  sum == RawSum("Tax", r) + bump
              IN /\ n < 3 => r.risk_score = Min(100, sum)
                 /\ n >= 3 => r.risk_score = Min(100, Max(sum, 85))

\* A scored tax record with tax on a non-taxable item, the ledger difference
\* and a per-invoice difference of 6: 5 + 35 + 25 + 10 = 75, below the floor.
C15_Witness ==
    /\ stage["Tax"] \in {"scored", "written"}
    /\ \E i \in 1..Len(df["Tax"]) :
          LET r == df["Tax"][i]
          IN /\ TrueFlags("Tax", r) = {"tax_on_nontaxable_item", "gl_tax_diff_flag"}
             /\ r.tax_diff_abs = 6
             /\ r.risk_score = 75
    /\ \E i \in 1..Len(df["Tax"]) : df["Tax"][i].tax_missing

====
